---- MODULE Spec2Model ----
(***************************************************************************)
(* State-machine model of the demo bank back office (src/main.py): the     *)
(* account table, the append-only transaction log, the payment list and    *)
(* its worker, the alert list, and the process lifecycle.                  *)
(*                                                                         *)
(* Money: a Decimal with two places is an integer number of cents; a       *)
(* Decimal that may carry a third place (a request's amount, a random      *)
(* draw) is an integer number of mills (1/1000).  Time is in seconds.      *)
(***************************************************************************)
EXTENDS Integers, Sequences, FiniteSets, TLC

VARIABLES
    now,                  \* wall clock, seconds
    up,                   \* the process is running (startup done, no shutdown yet)
    runStarts,            \* history: the log's length at each process start
    ACCOUNTS,             \* account id -> [balance (cents), last_updated]
    PENDING_PAYMENTS,     \* in-memory payment list
    ALERTS,               \* in-memory alert list
    TRANSACTION_COUNTER,
    PAYMENT_COUNTER,
    ALERT_COUNTER,
    TRANSACTIONS_FILE,    \* bank_data/transactions.jsonl, one record per line
    PAYMENTS_FILE,        \* bank_data/payments.json
    ALERTS_FILE,          \* bank_data/alerts.json
    simPc,                \* balance_simulator: "sleep", "ready", "mutated", "recorded", "alerted", "cancelled", "failed"
    simWake,              \* when its sleep ends
    simLocal,             \* its locals acct_key, change, desc, and the balance its mutation produced
    payPc,                \* payment_processor: "sleep", "loop", "debit", "debited", "recorded", "alerted", "cancelled", "failed"
    payWake,              \* when its sleep ends
    payIdx,               \* position of its for loop in PENDING_PAYMENTS[:]
    payBal,               \* the balance its last debit produced
    lastTick,             \* history: when its last completed tick of this process ran
    txnCause,             \* history: per log record, the position of the payment that caused it, 0 for the simulator
    payDebited,           \* history: per payment, the cents taken from balances on its behalf
    response,             \* HTTP status of the request handled by the last step, 0 if it was none
    body,                 \* what that request returned
    FX_RATES,             \* pair -> rate, in units of 0.0001
    fxPc,                 \* fx_rate_updater: "sleep", "cancelled"
    fxWake,               \* when its sleep ends
    fxLocal               \* its locals of the last tick: per pair, current and change_pct

vars == <<now, up, runStarts, ACCOUNTS, PENDING_PAYMENTS, ALERTS, TRANSACTION_COUNTER,
          PAYMENT_COUNTER, ALERT_COUNTER, TRANSACTIONS_FILE, PAYMENTS_FILE, ALERTS_FILE,
          simPc, simWake, simLocal, payPc, payWake, payIdx, payBal, lastTick, txnCause,
          payDebited, response, body, FX_RATES, fxPc, fxWake, fxLocal>>

memVars == <<ACCOUNTS, PENDING_PAYMENTS, ALERTS, TRANSACTION_COUNTER, PAYMENT_COUNTER,
             ALERT_COUNTER>>
fileVars == <<TRANSACTIONS_FILE, PAYMENTS_FILE, ALERTS_FILE>>
simVars == <<simPc, simWake, simLocal>>
payVars == <<payPc, payWake, payIdx, payBal, lastTick>>
histVars == <<runStarts, txnCause, payDebited>>
fxVars == <<FX_RATES, fxPc, fxWake, fxLocal>>

----------------------------------------------------------------------------
\* Bounds of the model

MaxTime == 120
MaxTxns == 4
MaxPayments == 2
MaxStarts == 2
MaxFxTicks == 2
MaxFaultStarts == 3
OutageBefore == 75

\* The clock moves in steps of this many seconds.
ClockSteps == {15}

----------------------------------------------------------------------------
\* Program constants

None == -1

AccountIds == {"op_aud", "sav_aud", "exp_usd"}

InitialBalance == [op_aud |-> 1653245, sav_aud |-> 12043210, exp_usd |-> 875067]

Currency == [op_aud |-> "AUD", sav_aud |-> "AUD", exp_usd |-> "USD"]

LowBalanceLimit == 500000
HighSeverityLimit == 200000
BalanceFloor == -500000
PaySleep == 15
ProcessAfter == 30
CompleteAfter == 60

\* FX_RATES: the tracked pairs and the rates the module starts with (0.65, 1.54)
FxPairs == {"AUD_USD", "USD_AUD"}
InitialRates == [AUD_USD |-> 6500, USD_AUD |-> 15400]
FxSleep == 120

----------------------------------------------------------------------------
\* Decimal helpers

Abs(n) == IF n < 0 THEN -n ELSE n

\* n/d rounded to an integer, ties away from zero (decimal.ROUND_HALF_UP)
RoundHalfUp(n, d) ==
    LET q == Abs(n) \div d
        r == Abs(n) % d
        m == IF 2 * r >= d THEN q + 1 ELSE q
    IN  IF n < 0 THEN -m ELSE m

\* n/d rounded to an integer, ties to the even neighbour (the decimal
\* context's default rounding, used by quantize() without a rounding argument)
RoundHalfEven(n, d) ==
    LET q == Abs(n) \div d
        r == Abs(n) % d
        m == IF 2 * r < d THEN q
             ELSE IF 2 * r > d THEN q + 1
             ELSE IF q % 2 = 0 THEN q ELSE q + 1
    IN  IF n < 0 THEN -m ELSE m

\* a two-place Decimal (cents) as a Decimal in mills
Mills(c) == c * 10

\* str(d.quantize(Decimal("0.01"), rounding=ROUND_HALF_UP)): mills -> the
\* two-place string, held as its number of cents
quantize_amount(m) == RoundHalfUp(m, 10)

----------------------------------------------------------------------------
\* Sequence helpers

Last(s) == s[Len(s)]

IsPrefix(s, t) == Len(s) <= Len(t) /\ SubSeq(t, 1, Len(s)) = s

----------------------------------------------------------------------------
\* Ledger and alert engine

generate_transaction_id(counter) == counter + 1

generate_payment_id(counter) == counter + 1

generate_alert_id(counter) == counter + 1

\* a record whose balance_after is computed from the change (the previous
\* recorded balance of the account plus or minus the amount) and not read
\* back from the account
NewTransaction_recomputing(accts, counter, account_id, amount, txn_type, description, t) ==
    LET earlier == {k \in 1..Len(TRANSACTIONS_FILE) :
                        TRANSACTIONS_FILE[k].account_id = account_id}
        before == IF earlier = {}
                  THEN InitialBalance[account_id]
                  ELSE TRANSACTIONS_FILE[CHOOSE k \in earlier :
                                            \A j \in earlier : j <= k].balance_after
        signed == IF txn_type = "credit" THEN Abs(amount) ELSE 0 - Abs(amount)
    IN  [transaction_id |-> generate_transaction_id(counter),
         account_id     |-> account_id,
         timestamp      |-> t,
         amount         |-> quantize_amount(Mills(Abs(amount))),
         type           |-> txn_type,
         description    |-> description,
         balance_after  |-> before + signed,
         currency       |-> Currency[account_id]]

\* the record record_transaction builds; amount is a signed Decimal in cents
NewTransaction(accts, counter, account_id, amount, txn_type, description, t) ==
    [transaction_id |-> generate_transaction_id(counter),
     account_id     |-> account_id,
     timestamp      |-> t,
     amount         |-> quantize_amount(Mills(Abs(amount))),
     type           |-> txn_type,
     description    |-> description,
     balance_after  |-> quantize_amount(Mills(accts[account_id].balance)),
     currency       |-> Currency[account_id]]

\* the file opened with "w" instead of "a"
save_transaction_truncating(file, txn) == <<txn>>

\* open(TRANSACTIONS_FILE, "a"): one more line at the end of the file
save_transaction(file, txn) == Append(file, txn)

\* the lines of the file, in order
load_transactions(file) == file

\* the low-balance test written with <=
LowBalanceFires_inclusive(account_id, balance) ==
    balance <= LowBalanceLimit /\ Currency[account_id] = "AUD"

\* line 200
LowBalanceFires(account_id, balance) ==
    balance < LowBalanceLimit /\ Currency[account_id] = "AUD"

OverdraftFires(account_id, balance) == balance < 0

LowBalanceSeverity(balance) == IF balance < HighSeverityLimit THEN "high" ELSE "medium"

LowBalanceAlert(counter, account_id, balance, t) ==
    [alert_id     |-> generate_alert_id(counter),
     account_id   |-> account_id,
     severity     |-> LowBalanceSeverity(balance),
     message      |-> [text |-> "Low balance warning", amount |-> quantize_amount(Mills(balance))],
     timestamp    |-> t,
     acknowledged |-> FALSE]

\* an overdraft alert of medium severity
OverdraftAlert_medium(counter, account_id, balance, t) ==
    [alert_id     |-> generate_alert_id(counter),
     account_id   |-> account_id,
     severity     |-> "medium",
     message      |-> [text |-> "OVERDRAFT", amount |-> quantize_amount(Mills(Abs(balance)))],
     timestamp    |-> t,
     acknowledged |-> FALSE]

\* lines 213-220
OverdraftAlert(counter, account_id, balance, t) ==
    [alert_id     |-> generate_alert_id(counter),
     account_id   |-> account_id,
     severity     |-> "high",
     message      |-> [text |-> "OVERDRAFT", amount |-> quantize_amount(Mills(Abs(balance)))],
     timestamp    |-> t,
     acknowledged |-> FALSE]

\* the account has an unacknowledged alert of this kind already
Active(account_id, text) ==
    \E j \in 1..Len(ALERTS) :
        /\ ALERTS[j].account_id = account_id
        /\ ALERTS[j].message.text = text
        /\ ~ALERTS[j].acknowledged

\* check_alerts with a suppression rule: no new alert while one of its kind is active
check_alerts_suppressing(accts, counter, account_id, t) ==
    LET balance == accts[account_id].balance
        low == IF LowBalanceFires(account_id, balance)
                  /\ ~Active(account_id, "Low balance warning")
               THEN <<LowBalanceAlert(counter, account_id, balance, t)>>
               ELSE <<>>
        over == IF OverdraftFires(account_id, balance) /\ ~Active(account_id, "OVERDRAFT")
                THEN <<OverdraftAlert(counter + Len(low), account_id, balance, t)>>
                ELSE <<>>
    IN  low \o over

\* the alerts one call of check_alerts(account_id) appends, in order
check_alerts(accts, counter, account_id, t) ==
    LET balance == accts[account_id].balance
        low == IF LowBalanceFires(account_id, balance)
               THEN <<LowBalanceAlert(counter, account_id, balance, t)>>
               ELSE <<>>
        over == IF OverdraftFires(account_id, balance)
                THEN <<OverdraftAlert(counter + Len(low), account_id, balance, t)>>
                ELSE <<>>
    IN  low \o over

\* check_alerts as a step: the appends, the id counter and the rewrites of alerts.json
CheckAlertsStep(account_id) ==
    LET new == check_alerts(ACCOUNTS, ALERT_COUNTER, account_id, now)
    IN  /\ ALERTS' = ALERTS \o new
        /\ ALERT_COUNTER' = ALERT_COUNTER + Len(new)
        /\ ALERTS_FILE' = IF new = <<>> THEN ALERTS_FILE ELSE ALERTS \o new

\* record_transaction as a step
RecordTransactionStep(account_id, amount, txn_type, description, cause) ==
    /\ txnCause' = Append(txnCause, cause)
    /\ TRANSACTION_COUNTER' = generate_transaction_id(TRANSACTION_COUNTER)
    /\ TRANSACTIONS_FILE' = save_transaction(TRANSACTIONS_FILE,
           NewTransaction(ACCOUNTS, TRANSACTION_COUNTER, account_id, amount, txn_type,
                          description, now))

----------------------------------------------------------------------------
\* Scheduling: one event loop; a task runs from one await to the next

\* the simulator is at its await (line 274); a task startup() has just created
\* ("ready") runs to its first await before anything else does
SimSuspended == simPc \in {"sleep", "cancelled", "failed"}

\* the payment worker is at its await (line 282), the only one in its loop
PaySuspended == payPc \in {"sleep", "cancelled", "failed"}

\* no task is between two awaits, and no task created by startup waits for its first run
Idle == SimSuspended /\ PaySuspended

NoLocal == [acct_key |-> "", change |-> 0, desc |-> <<>>, balance |-> 0]

\* the fx task has not ticked in this process
NoFxLocal == [p \in FxPairs |-> [current |-> 0, change_pct |-> 0]]

\* the last step was not a request
NoBody == [op |-> "", args |-> <<>>, out |-> <<>>]

----------------------------------------------------------------------------
\* Process lifecycle

\* the account table a process starts with (module load)
FreshAccounts ==
    [a \in AccountIds |-> [balance |-> InitialBalance[a], last_updated |-> None]]

Init ==
    /\ now = 0
    /\ up = TRUE
    /\ runStarts = <<0>>
    /\ ACCOUNTS = FreshAccounts
    /\ PAYMENT_COUNTER = 0
    /\ ALERT_COUNTER = 0
    /\ PENDING_PAYMENTS = <<>>
    /\ ALERTS = <<>>
    /\ TRANSACTION_COUNTER = 0
    /\ TRANSACTIONS_FILE = <<>>
    /\ PAYMENTS_FILE = <<>>
    /\ ALERTS_FILE = <<>>
    /\ simPc = "ready"
    /\ simWake = 0
    /\ simLocal = NoLocal
    /\ payPc = "sleep"
    /\ payWake = PaySleep
    /\ payIdx = 0
    /\ payBal = 0
    /\ lastTick = None
    /\ txnCause = <<>>
    /\ payDebited = <<>>
    /\ response = 0
    /\ body = NoBody
    /\ FX_RATES = InitialRates
    /\ fxPc = "sleep"
    /\ fxWake = FxSleep
    /\ fxLocal = NoFxLocal

\* a save that leaves the file as it was
save_payments_skipped(payments) == PAYMENTS_FILE

\* open(PAYMENTS_FILE, "w") and json.dump: the file becomes the list
save_payments(payments) == payments

\* a load that puts every payment back in the queue
load_payments_requeue(file) == [i \in 1..Len(file) |-> [file[i] EXCEPT !.status = "pending"]]

\* json.load of the file: the list that was saved
load_payments(file) == file

\* a load that puts every alert back to unacknowledged
load_alerts_resetting(file) == [i \in 1..Len(file) |-> [file[i] EXCEPT !.acknowledged = FALSE]]

\* json.load of the file: the list that was saved
load_alerts(file) == file

save_alerts(alerts) == alerts

\* startup without the seeding of lines 344-346
SeedTransactionCounter_unseeded(transactions) == 0

\* lines 344-346, on the module's TRANSACTION_COUNTER = 0
SeedTransactionCounter(transactions) ==
    IF transactions # <<>> THEN Len(transactions) ELSE 0

\* a new process on the data directory the last one left: module load, then startup()
StartupWithin(starts) ==
    /\ ~up
    /\ Len(runStarts) < starts
    /\ up' = TRUE
    /\ runStarts' = Append(runStarts, Len(TRANSACTIONS_FILE))
    /\ ACCOUNTS' = FreshAccounts
    /\ PAYMENT_COUNTER' = 0
    /\ ALERT_COUNTER' = 0
    /\ PENDING_PAYMENTS' = load_payments(PAYMENTS_FILE)
    /\ ALERTS' = load_alerts(ALERTS_FILE)
    /\ TRANSACTION_COUNTER' = SeedTransactionCounter(load_transactions(TRANSACTIONS_FILE))
    /\ simPc' = "ready"
    /\ simWake' = now
    /\ simLocal' = NoLocal
    /\ payPc' = "sleep"
    /\ payWake' = now + PaySleep
    /\ payIdx' = 0
    /\ payBal' = 0
    /\ lastTick' = None
    /\ response' = 0
    /\ body' = NoBody
    /\ FX_RATES' = InitialRates
    /\ fxPc' = "sleep"
    /\ fxWake' = now + FxSleep
    /\ fxLocal' = NoFxLocal
    /\ UNCHANGED <<now, fileVars, txnCause, payDebited>>

Startup == StartupWithin(MaxStarts)

\* a cancellation that reaches a task wherever it is
Cancellable_anywhere == TRUE

\* task.cancel() raises CancelledError in a task at its await; shutdown() is a
\* coroutine of the same loop and runs only while the tasks are at theirs
Cancellable == Idle

\* shutdown(): every task is cancelled at its await and returns
Shutdown ==
    /\ up
    /\ Cancellable
    /\ up' = FALSE
    /\ simPc' = "cancelled"
    /\ payPc' = "cancelled"
    /\ fxPc' = "cancelled"
    /\ response' = 0
    /\ body' = NoBody
    /\ UNCHANGED <<now, histVars, memVars, fileVars, simWake, simLocal, payWake, payIdx,
                   payBal, lastTick, FX_RATES, fxWake, fxLocal>>

\* time passes while every task sleeps; a sleeping task runs when its sleep ends
Advance(d) ==
    /\ Idle
    /\ now + d <= MaxTime
    /\ simPc = "sleep" => now + d <= simWake
    /\ payPc = "sleep" => now + d <= payWake
    /\ fxPc = "sleep" => now + d <= fxWake
    /\ now' = now + d
    /\ response' = 0
    /\ body' = NoBody
    /\ UNCHANGED <<up, histVars, memVars, fileVars, simVars, payVars, fxVars>>

----------------------------------------------------------------------------
\* balance_simulator

\* random draws, as Decimals in mills
OpTxnDraws == {-3000000}
OpTxnDescs == {"Supplier payment"}
\* random.uniform(-0.02, 0.03), in thousandths
OpVolDraws == {}
SavDraws == {2000000}
ExpReceiptDraws == {}
ExpPaymentDraws == {500000}
\* random.uniform(20, 90)
SimSleeps == {30}
\* random.choice(list(ACCOUNTS.keys()))
SimAccountDraws == {"op_aud", "exp_usd"}

\* the draws of the random module one iteration may get
SimDraws == [opTxn |-> OpTxnDraws, opDesc |-> OpTxnDescs, opVol |-> OpVolDraws,
             sav |-> SavDraws, expReceipt |-> ExpReceiptDraws, expPayment |-> ExpPaymentDraws]

\* Decimal(...).quantize(Decimal("0.01")) of lines 238-258: no rounding argument
QuantizeDraw(r, d) == RoundHalfEven(r, d)

\* the (change, desc) pairs one iteration computes for acct_key at balance base
\* from these draws
SimChangesFrom(acct_key, base, draws) ==
    IF acct_key = "op_aud"
    THEN {[change |-> QuantizeDraw(r, 10), desc |-> d] : r \in draws.opTxn, d \in draws.opDesc}
         \cup {[change |-> QuantizeDraw(base * v, 1000), desc |-> "Operating activity"] :
                  v \in draws.opVol}
    ELSE IF acct_key = "sav_aud"
    THEN {[change |-> QuantizeDraw(r, 10),
           desc |-> IF QuantizeDraw(r, 10) > 0 THEN "Interest earned"
                    ELSE "Transfer to operating"] : r \in draws.sav}
    ELSE {[change |-> QuantizeDraw(r, 10), desc |-> "Export receipt"] : r \in draws.expReceipt}
         \cup {[change |-> QuantizeDraw(r, 10), desc |-> "International payment"] :
                  r \in draws.expPayment}

SimChanges(acct_key, base) == SimChangesFrom(acct_key, base, SimDraws)

\* the mutation without lines 262-263
SimNewBalance_unclamped(balance, change) == RoundHalfEven(Mills(balance + change), 10)

\* (acct["balance"] + change).quantize(Decimal("0.01")), then the floor
SimNewBalance(balance, change) ==
    LET b == RoundHalfEven(Mills(balance + change), 10)
    IN  IF b < BalanceFloor THEN BalanceFloor ELSE b

\* lines 231-265: pick the account, compute the change, mutate the balance
SimMutate(acct_key, c) ==
    /\ up
    /\ PaySuspended
    /\ simPc = "ready" \/ (simPc = "sleep" /\ now >= simWake)
    /\ Len(TRANSACTIONS_FILE) < MaxTxns
    /\ ACCOUNTS' = [ACCOUNTS EXCEPT ![acct_key] =
                       [balance |-> SimNewBalance(@.balance, c.change), last_updated |-> now]]
    /\ simLocal' = [acct_key |-> acct_key, change |-> c.change, desc |-> <<c.desc>>,
                    balance |-> SimNewBalance(ACCOUNTS[acct_key].balance, c.change)]
    /\ simPc' = "mutated"
    /\ response' = 0
    /\ body' = NoBody
    /\ UNCHANGED <<now, up, fxVars, histVars, PENDING_PAYMENTS, ALERTS, TRANSACTION_COUNTER,
                   PAYMENT_COUNTER, ALERT_COUNTER, fileVars, simWake, payVars>>

\* lines 268-269
SimRecord ==
    /\ simPc = "mutated"
    /\ RecordTransactionStep(simLocal.acct_key, simLocal.change,
                             IF simLocal.change > 0 THEN "credit" ELSE "debit",
                             simLocal.desc, 0)
    /\ simPc' = "recorded"
    /\ UNCHANGED <<now, up, fxVars, runStarts, payDebited, ACCOUNTS, PENDING_PAYMENTS, ALERTS,
                   PAYMENT_COUNTER, ALERT_COUNTER, PAYMENTS_FILE, ALERTS_FILE, simWake,
                   simLocal, payVars, response, body>>

\* line 272
SimAlerts ==
    /\ simPc = "recorded"
    /\ CheckAlertsStep(simLocal.acct_key)
    /\ simPc' = "alerted"
    /\ UNCHANGED <<now, up, fxVars, histVars, ACCOUNTS, PENDING_PAYMENTS, TRANSACTION_COUNTER,
                   PAYMENT_COUNTER, TRANSACTIONS_FILE, PAYMENTS_FILE, simWake, simLocal,
                   payVars, response, body>>

\* line 274: the sleep of d seconds begins
SimSleep(d) ==
    /\ simPc = "alerted"
    /\ simPc' = "sleep"
    /\ simWake' = now + d
    /\ simLocal' = NoLocal
    /\ UNCHANGED <<now, up, fxVars, histVars, memVars, fileVars, payVars, response, body>>

----------------------------------------------------------------------------
\* payment_processor

Age(payment, t) == t - payment.created_at

\* the worker without the status test of line 285
Evaluated_every_status(payment) == TRUE

\* line 285: the statuses the worker evaluates
Evaluated(payment) == payment.status = "pending"

\* the processing mark as the first arm of an if/elif: skipped for a payment
\* that is due for completion
DueForProcessing_else(age) == age > ProcessAfter /\ age <= CompleteAfter

\* the test written with >=
DueForProcessing_inclusive(age) == age >= ProcessAfter

\* line 292
DueForProcessing(age) == age > ProcessAfter

\* line 296
DueForCompletion(age) == age > CompleteAfter

PaymentDescription(payment) == <<"Payment to", payment.to_reference, payment.description>>

\* line 282: the sleep ends, the for loop starts on PENDING_PAYMENTS[:]
PayTick ==
    /\ up
    /\ SimSuspended
    /\ payPc = "sleep"
    /\ now >= payWake
    /\ payPc' = "loop"
    /\ payIdx' = 1
    /\ response' = 0
    /\ body' = NoBody
    /\ UNCHANGED <<now, up, fxVars, histVars, memVars, fileVars, simVars, payWake, payBal, lastTick>>

\* the for loop is exhausted: back to line 282
PaySleeps ==
    /\ payPc = "loop"
    /\ payIdx > Len(PENDING_PAYMENTS)
    /\ payPc' = "sleep"
    /\ payWake' = now + PaySleep
    /\ payIdx' = 0
    /\ payBal' = 0
    /\ lastTick' = now
    /\ UNCHANGED <<now, up, fxVars, histVars, memVars, fileVars, simVars, response, body>>

\* lines 285-286: continue
PaySkip ==
    /\ payPc = "loop"
    /\ payIdx <= Len(PENDING_PAYMENTS)
    /\ ~Evaluated(PENDING_PAYMENTS[payIdx])
    /\ payIdx' = payIdx + 1
    /\ UNCHANGED <<now, up, fxVars, histVars, memVars, fileVars, simVars, payPc, payWake, payBal,
                   lastTick, response, body>>

\* lines 289-299: the age tests of one pending payment
PayExamine ==
    /\ payPc = "loop"
    /\ payIdx <= Len(PENDING_PAYMENTS)
    /\ Evaluated(PENDING_PAYMENTS[payIdx])
    /\ LET payment == PENDING_PAYMENTS[payIdx]
           age == Age(payment, now)
           marked == IF DueForProcessing(age)
                     THEN [PENDING_PAYMENTS EXCEPT ![payIdx].status = "processing"]
                     ELSE PENDING_PAYMENTS
       IN  /\ PENDING_PAYMENTS' = marked
           /\ PAYMENTS_FILE' = IF DueForProcessing(age) THEN save_payments(marked)
                               ELSE PAYMENTS_FILE
           /\ IF DueForCompletion(age)
              THEN /\ payPc' = IF payment.from_account \in AccountIds THEN "debit" ELSE "alerted"
                   /\ payIdx' = payIdx
              ELSE /\ payPc' = "loop"
                   /\ payIdx' = payIdx + 1
    /\ UNCHANGED <<now, up, fxVars, histVars, ACCOUNTS, ALERTS, TRANSACTION_COUNTER, PAYMENT_COUNTER,
                   ALERT_COUNTER, TRANSACTIONS_FILE, ALERTS_FILE, simVars, payWake, payBal,
                   lastTick, response, body>>

\* lines 300-301: ACCOUNTS[from_acct]["balance"] -= Decimal(payment["amount"])
PayDebit ==
    /\ payPc = "debit"
    /\ Len(TRANSACTIONS_FILE) < MaxTxns
    /\ LET payment == PENDING_PAYMENTS[payIdx]
           balance == ACCOUNTS[payment.from_account].balance - payment.amount
       IN  /\ ACCOUNTS' = [ACCOUNTS EXCEPT ![payment.from_account].balance = balance]
           /\ payBal' = balance
           /\ payDebited' = [payDebited EXCEPT ![payIdx] =
                                 @ + (ACCOUNTS[payment.from_account].balance - balance)]
    /\ payPc' = "debited"
    /\ UNCHANGED <<now, up, fxVars, runStarts, txnCause, PENDING_PAYMENTS, ALERTS,
                   TRANSACTION_COUNTER, PAYMENT_COUNTER, ALERT_COUNTER, fileVars, simVars,
                   payWake, payIdx, lastTick, response, body>>

\* lines 303-308
PayRecord ==
    /\ payPc = "debited"
    /\ LET payment == PENDING_PAYMENTS[payIdx]
       IN  RecordTransactionStep(payment.from_account, -payment.amount, "debit",
                                 PaymentDescription(payment), payIdx)
    /\ payPc' = "recorded"
    /\ UNCHANGED <<now, up, fxVars, runStarts, payDebited, ACCOUNTS, PENDING_PAYMENTS, ALERTS,
                   PAYMENT_COUNTER, ALERT_COUNTER, PAYMENTS_FILE, ALERTS_FILE, simVars,
                   payWake, payIdx, payBal, lastTick, response, body>>

\* line 310
PayAlerts ==
    /\ payPc = "recorded"
    /\ CheckAlertsStep(PENDING_PAYMENTS[payIdx].from_account)
    /\ payPc' = "alerted"
    /\ UNCHANGED <<now, up, fxVars, histVars, ACCOUNTS, PENDING_PAYMENTS, TRANSACTION_COUNTER,
                   PAYMENT_COUNTER, TRANSACTIONS_FILE, PAYMENTS_FILE, simVars, payWake,
                   payIdx, payBal, lastTick, response, body>>

\* lines 312-314
PayComplete ==
    /\ payPc = "alerted"
    /\ LET done == [PENDING_PAYMENTS EXCEPT ![payIdx].status = "completed",
                                             ![payIdx].processed_at = now]
       IN  /\ PENDING_PAYMENTS' = done
           /\ PAYMENTS_FILE' = save_payments(done)
    /\ payPc' = "loop"
    /\ payIdx' = payIdx + 1
    /\ payBal' = 0
    /\ UNCHANGED <<now, up, fxVars, histVars, ACCOUNTS, ALERTS, TRANSACTION_COUNTER, PAYMENT_COUNTER,
                   ALERT_COUNTER, TRANSACTIONS_FILE, ALERTS_FILE, simVars, payWake, lastTick,
                   response, body>>

----------------------------------------------------------------------------
\* fx_rate_updater

\* Decimal(str(random.uniform(-0.005, 0.005))), in units of 0.00001
FxDraws == {-500, 498}

\* line 328: (current * (Decimal("1") + change_pct)).quantize(Decimal("0.0001")),
\* a quantize() without a rounding argument
NewRate(current, change_pct) == RoundHalfEven(current * (100000 + change_pct), 100000)

\* lines 322-329: the sleep ends and every pair gets its new rate; the loop has
\* no await, so the tick is one step
FxTick(pcts) ==
    /\ up
    /\ Idle
    /\ fxPc = "sleep"
    /\ now >= fxWake
    /\ FX_RATES' = [p \in FxPairs |-> NewRate(FX_RATES[p], pcts[p])]
    /\ fxLocal' = [p \in FxPairs |-> [current |-> FX_RATES[p], change_pct |-> pcts[p]]]
    /\ fxWake' = now + FxSleep
    /\ response' = 0
    /\ body' = NoBody
    /\ UNCHANGED <<now, up, fxPc, histVars, memVars, fileVars, simVars, payVars>>

----------------------------------------------------------------------------
\* API requests (handled between the workers' steps)

\* request inputs: an amount string is what Decimal() makes of it (parses: it
\* is a number that compares with 0; mills: its value; quantizes: quantize()
\* accepts it, which it does not for Infinity or more than 28 digits)
AccountInputs == {"op_aud", "nope"}
AmountInputs == {[parses |-> TRUE, mills |-> 21000000, quantizes |-> TRUE]}
ReferenceInputs == {"R1"}
DescriptionInputs == {"rent"}
AlertIdInputs == {1}

\* the validation with amt < 0 in place of amt <= 0
ValidAmount_nonnegative(amount) == amount.parses /\ amount.mills >= 0

\* lines 442-447
ValidAmount(amount) == amount.parses /\ amount.mills > 0

\* lines 449-459
\* a payment that is stamped when it is created
NewPayment_stamped(counter, from_account, to_reference, amount, description, t) ==
    [payment_id   |-> generate_payment_id(counter),
     from_account |-> from_account,
     to_reference |-> to_reference,
     amount       |-> quantize_amount(amount.mills),
     currency     |-> Currency[from_account],
     status       |-> "pending",
     created_at   |-> t,
     processed_at |-> t,
     description  |-> description]

\* lines 449-459
NewPayment(counter, from_account, to_reference, amount, description, t) ==
    [payment_id   |-> generate_payment_id(counter),
     from_account |-> from_account,
     to_reference |-> to_reference,
     amount       |-> quantize_amount(amount.mills),
     currency     |-> Currency[from_account],
     status       |-> "pending",
     created_at   |-> t,
     processed_at |-> None,
     description  |-> description]

\* a submission that takes the amount from the account at once
create_payment_reserving(from_account, to_reference, amount, description) ==
    /\ up
    /\ Idle
    /\ from_account \in AccountIds
    /\ ValidAmount(amount)
    /\ amount.quantizes
    /\ Len(PENDING_PAYMENTS) < MaxPayments
    /\ PAYMENT_COUNTER' = generate_payment_id(PAYMENT_COUNTER)
    /\ PENDING_PAYMENTS' = Append(PENDING_PAYMENTS,
           NewPayment(PAYMENT_COUNTER, from_account, to_reference, amount, description, now))
    /\ PAYMENTS_FILE' = save_payments(PENDING_PAYMENTS')
    /\ ACCOUNTS' = [ACCOUNTS EXCEPT ![from_account].balance = @ - quantize_amount(amount.mills)]
    /\ payDebited' = Append(payDebited, 0)
    /\ response' = 200
    /\ body' = [op |-> "create_payment", args |-> <<from_account, amount>>,
                out |-> <<Last(PENDING_PAYMENTS')>>]
    /\ UNCHANGED <<now, up, fxVars, runStarts, txnCause, ALERTS, TRANSACTION_COUNTER,
                   ALERT_COUNTER, TRANSACTIONS_FILE, ALERTS_FILE, simVars, payVars>>

\* POST /payments
create_payment(from_account, to_reference, amount, description) ==
    /\ up
    /\ Idle
    /\ IF from_account \notin AccountIds
       THEN /\ response' = 404
            /\ body' = [op |-> "create_payment", args |-> <<from_account, amount>>,
                        out |-> <<>>]
            /\ UNCHANGED <<PENDING_PAYMENTS, PAYMENT_COUNTER, PAYMENTS_FILE, payDebited>>
       ELSE IF ~ValidAmount(amount)
       THEN /\ response' = 400
            /\ body' = [op |-> "create_payment", args |-> <<from_account, amount>>,
                        out |-> <<>>]
            /\ UNCHANGED <<PENDING_PAYMENTS, PAYMENT_COUNTER, PAYMENTS_FILE, payDebited>>
       ELSE IF ~amount.quantizes
       \* line 450 has run when line 453 raises: the id is spent, nothing is stored
       THEN /\ PAYMENT_COUNTER < MaxPayments
            /\ PAYMENT_COUNTER' = generate_payment_id(PAYMENT_COUNTER)
            /\ response' = 500
            /\ body' = [op |-> "create_payment", args |-> <<from_account, amount>>,
                        out |-> <<>>]
            /\ UNCHANGED <<PENDING_PAYMENTS, PAYMENTS_FILE, payDebited>>
       ELSE /\ Len(PENDING_PAYMENTS) < MaxPayments
            /\ PAYMENT_COUNTER' = generate_payment_id(PAYMENT_COUNTER)
            /\ PENDING_PAYMENTS' = Append(PENDING_PAYMENTS,
                   NewPayment(PAYMENT_COUNTER, from_account, to_reference, amount,
                              description, now))
            /\ PAYMENTS_FILE' = save_payments(PENDING_PAYMENTS')
            /\ payDebited' = Append(payDebited, 0)
            /\ response' = 200
            /\ body' = [op |-> "create_payment", args |-> <<from_account, amount>>,
                        out |-> <<Last(PENDING_PAYMENTS')>>]
    /\ UNCHANGED <<now, up, fxVars, runStarts, txnCause, ACCOUNTS, ALERTS, TRANSACTION_COUNTER,
                   ALERT_COUNTER, TRANSACTIONS_FILE, ALERTS_FILE, simVars, payVars>>

\* the positions of the alerts with this id
\* a lookup that passes over the alerts acknowledged already
AlertMatches_unacknowledged(alerts, alert_id) ==
    {i \in 1..Len(alerts) : alerts[i].alert_id = alert_id /\ ~alerts[i].acknowledged}

\* lines 544-545: the alerts the loop's test accepts
AlertMatches(alerts, alert_id) == {i \in 1..Len(alerts) : alerts[i].alert_id = alert_id}

Min(S) == CHOOSE x \in S : \A y \in S : x <= y

\* POST /alerts/{alert_id}/acknowledge
acknowledge_alert(alert_id) ==
    /\ up
    /\ Idle
    /\ IF AlertMatches(ALERTS, alert_id) = {}
       THEN /\ response' = 404
            /\ body' = [op |-> "acknowledge_alert", args |-> <<alert_id>>, out |-> <<>>]
            /\ UNCHANGED <<ALERTS, ALERTS_FILE>>
       ELSE /\ ALERTS' = [ALERTS EXCEPT ![Min(AlertMatches(ALERTS, alert_id))].acknowledged = TRUE]
            /\ ALERTS_FILE' = save_alerts(ALERTS')
            /\ response' = 200
            /\ body' = [op |-> "acknowledge_alert", args |-> <<alert_id>>,
                        out |-> <<"acknowledged">>]
    /\ UNCHANGED <<now, up, fxVars, histVars, ACCOUNTS, PENDING_PAYMENTS, TRANSACTION_COUNTER,
                   PAYMENT_COUNTER, ALERT_COUNTER, TRANSACTIONS_FILE, PAYMENTS_FILE, simVars,
                   payVars>>

----------------------------------------------------------------------------
\* Read requests

Max(S) == CHOOSE x \in S : \A y \in S : x >= y

\* s[start:] as Python slices a list
SliceFrom(s, start) ==
    LET n == Len(s)
        i == IF start < 0 THEN Max({n + start, 0}) ELSE Min({start, n})
    IN  SubSeq(s, i + 1, n)

\* s[::-1]
Reversed(s) == [i \in 1..Len(s) |-> s[Len(s) + 1 - i]]

RECURSIVE SumAmounts(_)
\* sum(Decimal(t["amount"]) for t in txns)
SumAmounts(txns) == IF txns = <<>> THEN 0 ELSE txns[1].amount + SumAmounts(Tail(txns))

\* a handler that returns: the status, the body, and nothing else changes
Respond(op, args, status, out) ==
    /\ up
    /\ Idle
    /\ response' = status
    /\ body' = [op |-> op, args |-> args, out |-> out]
    /\ UNCHANGED <<now, up, fxVars, histVars, memVars, fileVars, simVars, payVars>>

\* dict order of ACCOUNTS
AccountOrder == <<"op_aud", "sav_aud", "exp_usd">>

\* lines 381-387 and 397-403
AccountBalanceOf(accts, account_id, t) ==
    [account_id   |-> account_id,
     currency     |-> Currency[account_id],
     balance      |-> quantize_amount(Mills(accts[account_id].balance)),
     last_updated |-> IF accts[account_id].last_updated = None THEN t
                      ELSE accts[account_id].last_updated]

\* GET /balances
get_balances ==
    Respond("get_balances", <<>>, 200,
            [i \in 1..Len(AccountOrder) |-> AccountBalanceOf(ACCOUNTS, AccountOrder[i], now)])

\* GET /balances/{account_id}
get_balance(account_id) ==
    IF account_id \notin AccountIds
    THEN Respond("get_balance", <<account_id>>, 404, <<>>)
    ELSE Respond("get_balance", <<account_id>>, 200,
                 <<AccountBalanceOf(ACCOUNTS, account_id, now)>>)

\* Query(100, le=1000)
LimitCeiling == 1000

\* lines 416-424; account_id "" is an absent or empty parameter
TransactionsPage(all_txns, account_id, limit) ==
    LET matching == IF account_id # ""
                    THEN SelectSeq(all_txns, LAMBDA t : t.account_id = account_id)
                    ELSE all_txns
    IN  Reversed(SliceFrom(matching, 0 - limit))

\* GET /transactions
get_transactions(account_id, limit) ==
    IF limit > LimitCeiling
    THEN Respond("get_transactions", <<account_id, limit>>, 422, <<>>)
    ELSE Respond("get_transactions", <<account_id, limit>>, 200,
                 TransactionsPage(load_transactions(TRANSACTIONS_FILE), account_id, limit))

\* GET /payments; status "" is an absent parameter
get_payments(status) ==
    Respond("get_payments", <<status>>, 200,
            IF status # "" THEN SelectSeq(PENDING_PAYMENTS, LAMBDA q : q.status = status)
            ELSE PENDING_PAYMENTS)

\* GET /alerts; acknowledged "" and severity "" are absent parameters
get_alerts(acknowledged, severity) ==
    LET first == IF acknowledged # ""
                 THEN SelectSeq(ALERTS, LAMBDA a : a.acknowledged = (acknowledged = "true"))
                 ELSE ALERTS
    IN  Respond("get_alerts", <<acknowledged, severity>>, 200,
                IF severity # "" THEN SelectSeq(first, LAMBDA a : a.severity = severity)
                ELSE first)

\* timedelta(days=1), timedelta(weeks=1), timedelta(days=30), in seconds
PeriodSeconds == [day |-> 86400, week |-> 604800, month |-> 2592000]

\* the test with >= in place of >
InPeriod_inclusive(timestamp, cutoff) == timestamp >= cutoff

\* line 506
InPeriod(timestamp, cutoff) == timestamp > cutoff

\* lines 494-520
CashFlowSummaryOf(all_txns, account_id, period, t) ==
    LET cutoff == t - PeriodSeconds[period]
        relevant == SelectSeq(all_txns, LAMBDA x : x.account_id = account_id
                                                   /\ InPeriod(x.timestamp, cutoff))
        total_in == SumAmounts(SelectSeq(relevant, LAMBDA x : x.type = "credit"))
        total_out == SumAmounts(SelectSeq(relevant, LAMBDA x : x.type = "debit"))
    IN  [account_id        |-> account_id,
         period            |-> period,
         total_inflows     |-> quantize_amount(Mills(total_in)),
         total_outflows    |-> quantize_amount(Mills(total_out)),
         net_flow          |-> quantize_amount(Mills(total_in - total_out)),
         transaction_count |-> Len(relevant),
         currency          |-> Currency[account_id]]

\* GET /analytics/cashflow/{account_id}
get_cashflow(account_id, period) ==
    IF account_id \notin AccountIds
    THEN Respond("get_cashflow", <<account_id, period>>, 404, <<>>)
    ELSE Respond("get_cashflow", <<account_id, period>>, 200,
                 <<CashFlowSummaryOf(load_transactions(TRANSACTIONS_FILE), account_id,
                                     period, now)>>)

\* dict order of FX_RATES
PairOrder == <<"AUD_USD", "USD_AUD">>

\* GET /fx/rates: quantize_amount(rate) is the rate at two places
get_fx_rates ==
    Respond("get_fx_rates", <<>>, 200,
            [i \in 1..Len(PairOrder) |->
                [pair |-> PairOrder[i], rate |-> RoundHalfUp(FX_RATES[PairOrder[i]], 100)]])

\* GET /fx/convert; the amount is what Decimal() makes of the string, in mills
convert_currency(amount, pair) ==
    IF pair \notin FxPairs \/ ~amount.parses
    THEN Respond("convert_currency", <<amount, pair>>, 400, <<>>)
    ELSE Respond("convert_currency", <<amount, pair>>, 200,
                 <<[from_amount |-> quantize_amount(amount.mills),
                    to_amount   |-> RoundHalfUp(amount.mills * FX_RATES[pair], 100000),
                    rate        |-> RoundHalfUp(FX_RATES[pair], 100)]>>)

\* parameters of the read requests
ReadAccountInputs == {"op_aud"}
LimitInputs == {100}
StatusInputs == {""}
PeriodInputs == {"day"}
PairInputs == {"AUD_USD"}
ConvertInputs == {[parses |-> TRUE, mills |-> 1000]}

----------------------------------------------------------------------------
\* The system

Next ==
    \/ \E d \in ClockSteps : Advance(d)
    \/ Startup
    \/ Shutdown
    \/ \E a \in SimAccountDraws : \E c \in SimChanges(a, ACCOUNTS[a].balance) : SimMutate(a, c)
    \/ SimRecord
    \/ SimAlerts
    \/ \E d \in SimSleeps : SimSleep(d)
    \/ PayTick
    \/ PaySleeps
    \/ PaySkip
    \/ PayExamine
    \/ PayDebit
    \/ PayRecord
    \/ PayAlerts
    \/ PayComplete
    \/ \E f \in AccountInputs, t \in ReferenceInputs, m \in AmountInputs, d \in DescriptionInputs :
          create_payment(f, t, m, d)
    \/ \E i \in AlertIdInputs : acknowledge_alert(i)
    \/ \E p \in [FxPairs -> FxDraws] : FxTick(p)

Spec == Init /\ [][Next]_vars

\* the read requests
NextReads ==
    \/ get_balances
    \/ \E a \in ReadAccountInputs : get_balance(a)
    \/ \E a \in ReadAccountInputs, l \in LimitInputs : get_transactions(a, l)
    \/ \E st \in StatusInputs : get_payments(st)
    \/ get_alerts("", "")
    \/ \E a \in ReadAccountInputs, pd \in PeriodInputs : get_cashflow(a, pd)
    \/ get_fx_rates
    \/ \E m \in ConvertInputs, pr \in PairInputs : convert_currency(m, pr)

\* the workers, with the simulator on one account, and the submissions and
\* acknowledgements
NextWriters ==
    \/ \E d \in ClockSteps : Advance(d)
    \/ Startup
    \/ Shutdown
    \/ \E c \in SimChanges("op_aud", ACCOUNTS["op_aud"].balance) : SimMutate("op_aud", c)
    \/ SimRecord
    \/ SimAlerts
    \/ \E d \in SimSleeps : SimSleep(d)
    \/ PayTick
    \/ PaySleeps
    \/ PaySkip
    \/ PayExamine
    \/ PayDebit
    \/ PayRecord
    \/ PayAlerts
    \/ PayComplete
    \/ \E f \in AccountInputs, t \in ReferenceInputs, m \in AmountInputs, d \in DescriptionInputs :
          create_payment(f, t, m, d)
    \/ \E i \in AlertIdInputs : acknowledge_alert(i)
    \/ \E p \in [FxPairs -> FxDraws] : FxTick(p)

NextAll == NextWriters \/ NextReads

\* the workers and every request handler
SpecAll == Init /\ [][NextAll]_vars

----------------------------------------------------------------------------
\* Properties

Payments == 1..Len(PENDING_PAYMENTS)

Records == 1..Len(TRANSACTIONS_FILE)

\* the log records the payment at position i caused
RecordsOf(i) == {k \in Records : txnCause[k] = i}

\* the process run that wrote record k
RunOf(k) == CHOOSE r \in 1..Len(runStarts) :
                /\ runStarts[r] < k
                /\ r = Len(runStarts) \/ k <= runStarts[r + 1]

SignedAmount(txn) == IF txn.type = "credit" THEN txn.amount ELSE -txn.amount

RECURSIVE ReplaySum(_, _, _, _)
\* the signed magnitudes of account a's records at positions from..to, added up
ReplaySum(log, a, from, to) ==
    IF to < from THEN 0
    ELSE ReplaySum(log, a, from, to - 1)
         + (IF log[to].account_id = a THEN SignedAmount(log[to]) ELSE 0)

\* C1: with the worker ticking every 15 seconds and no restart, a payment is
\* completed once a tick has run at which its age was at least 60 seconds
\* (so at most 75 seconds after its creation); a payment already moved to
\* processing is completed by a later tick.
C1_CompletedAtFirstTickFromSixty ==
    (up /\ Len(runStarts) = 1 /\ payPc = "sleep" /\ lastTick # None) =>
        \A i \in Payments :
            lastTick - PENDING_PAYMENTS[i].created_at >= CompleteAfter
                => PENDING_PAYMENTS[i].status = "completed"

\* C2: a completed payment has taken exactly its amount from the source
\* balance, has exactly one ledger record, a debit of its amount on its source
\* account, and has its completion timestamp; this stays so in every later
\* state (later ticks take nothing more and record nothing more for it).
C2_CompletionDebitsOnce ==
    \A i \in Payments :
        PENDING_PAYMENTS[i].status = "completed" =>
            /\ payDebited[i] = PENDING_PAYMENTS[i].amount
            /\ Cardinality(RecordsOf(i)) = 1
            /\ \A k \in RecordsOf(i) :
                  /\ TRANSACTIONS_FILE[k].type = "debit"
                  /\ TRANSACTIONS_FILE[k].amount = PENDING_PAYMENTS[i].amount
                  /\ TRANSACTIONS_FILE[k].account_id = PENDING_PAYMENTS[i].from_account
                  /\ TRANSACTIONS_FILE[k].timestamp = PENDING_PAYMENTS[i].processed_at
            /\ PENDING_PAYMENTS[i].processed_at # None

\* a payment completed, and a later tick of the worker has passed over it
C2_Witness ==
    \E i \in Payments :
        /\ PENDING_PAYMENTS[i].status = "completed"
        /\ payPc = "sleep"
        /\ lastTick # None
        /\ lastTick > PENDING_PAYMENTS[i].processed_at

\* C3: within one process run, the initial balance of an account plus the
\* signed magnitudes (credit positive, debit negative) of its records, in log
\* order, gives the balance_after stored in each of those records.
C3_ReplayConsistency ==
    \A k \in Records :
        LET a == TRANSACTIONS_FILE[k].account_id
        IN  TRANSACTIONS_FILE[k].balance_after
                = InitialBalance[a]
                  + ReplaySum(TRANSACTIONS_FILE, a, runStarts[RunOf(k)] + 1, k)

\* C4: the sequence counter of a running process equals the number of log
\* records, and the k-th record carries identifier k, also for the records
\* appended after a restart.
C4_LedgerMonotonic ==
    /\ up => TRANSACTION_COUNTER = Len(TRANSACTIONS_FILE)
    /\ \A k \in Records : TRANSACTIONS_FILE[k].transaction_id = k

\* a restart found a non-empty log and the new process appended to it
C4_Witness ==
    /\ Len(runStarts) >= 2
    /\ runStarts[2] > 0
    /\ Len(TRANSACTIONS_FILE) > runStarts[2]

\* C5: the log only grows at its end: every step leaves the log it found as a
\* prefix of the log it leaves.
C5_LogAppendOnly == [][IsPrefix(TRANSACTIONS_FILE, TRANSACTIONS_FILE')]_vars

\* records of two process runs, the later ones appended behind the earlier
C5_Witness ==
    /\ Len(runStarts) >= 2
    /\ runStarts[2] >= 1
    /\ Len(TRANSACTIONS_FILE) >= runStarts[2] + 2

\* C6: in a writer step the ledger record carries the balance that step's
\* mutation produced, the alert evaluation reads that same balance, and the
\* account still holds it at each point of the step: nothing that touches the
\* account runs between the mutation, the append and the evaluation.
AlertsReadBalance(account_id, balance) ==
    LET n == (IF LowBalanceFires(account_id, balance) THEN 1 ELSE 0)
             + (IF OverdraftFires(account_id, balance) THEN 1 ELSE 0)
    IN  /\ Len(ALERTS) >= n
        /\ \A j \in (Len(ALERTS) - n + 1)..Len(ALERTS) :
              /\ ALERTS[j].account_id = account_id
              /\ ALERTS[j].timestamp = now
              /\ ALERTS[j].message.amount
                     = IF ALERTS[j].message.text = "OVERDRAFT" THEN Abs(balance) ELSE balance

C6_WriterStepAtomic ==
    /\ simPc \in {"mutated", "recorded", "alerted"} =>
          ACCOUNTS[simLocal.acct_key].balance = simLocal.balance
    /\ simPc \in {"recorded", "alerted"} =>
          /\ Last(TRANSACTIONS_FILE).account_id = simLocal.acct_key
          /\ Last(TRANSACTIONS_FILE).balance_after = simLocal.balance
    /\ simPc = "alerted" => AlertsReadBalance(simLocal.acct_key, simLocal.balance)
    /\ payPc \in {"debited", "recorded", "alerted"} =>
          ACCOUNTS[PENDING_PAYMENTS[payIdx].from_account].balance = payBal
    /\ payPc \in {"recorded", "alerted"} =>
          /\ Last(TRANSACTIONS_FILE).account_id = PENDING_PAYMENTS[payIdx].from_account
          /\ Last(TRANSACTIONS_FILE).balance_after = payBal
    /\ payPc = "alerted" =>
          AlertsReadBalance(PENDING_PAYMENTS[payIdx].from_account, payBal)

\* both writers have completed a step on the same account, the payment worker
\* is past its alert evaluation, and that evaluation created alerts
C6_Witness ==
    /\ payPc = "alerted"
    /\ payBal < 0
    /\ \E k \in Records :
          /\ txnCause[k] = 0
          /\ k > runStarts[Len(runStarts)]
          /\ TRANSACTIONS_FILE[k].account_id = PENDING_PAYMENTS[payIdx].from_account
    /\ Len(ALERTS) >= 2

\* the age of payment i at the last completed tick
AgeAtLastTick(i) == lastTick - PENDING_PAYMENTS[i].created_at

TickSeen(i) ==
    /\ up
    /\ payPc = "sleep"
    /\ lastTick # None
    /\ PENDING_PAYMENTS[i].created_at <= lastTick

\* C7 as stated: a tick moves a pending payment of age 30 seconds or more out
\* of pending and leaves a younger one pending; a payment created at T is
\* pending at every probe before T+30s.
C7_ProcessingFromThirty ==
    \A i \in Payments :
        /\ TickSeen(i) =>
              /\ AgeAtLastTick(i) >= ProcessAfter => PENDING_PAYMENTS[i].status # "pending"
              /\ AgeAtLastTick(i) < ProcessAfter => PENDING_PAYMENTS[i].status = "pending"
        /\ now - PENDING_PAYMENTS[i].created_at < ProcessAfter
              => PENDING_PAYMENTS[i].status = "pending"

\* C7 amended: a tick moves a pending payment out of pending when its age is
\* strictly above 30 seconds and leaves it pending when its age is 30 seconds
\* or less; a payment created at T is pending at every probe up to T+30s.
C7_ProcessingAfterThirty ==
    \A i \in Payments :
        /\ TickSeen(i) =>
              /\ AgeAtLastTick(i) > ProcessAfter => PENDING_PAYMENTS[i].status # "pending"
              /\ AgeAtLastTick(i) <= ProcessAfter => PENDING_PAYMENTS[i].status = "pending"
        /\ now - PENDING_PAYMENTS[i].created_at <= ProcessAfter
              => PENDING_PAYMENTS[i].status = "pending"

\* one tick has seen a payment at age exactly 30 seconds, still pending, and
\* an older one, now processing
C7_Witness ==
    \E i, j \in Payments :
        /\ TickSeen(i)
        /\ TickSeen(j)
        /\ AgeAtLastTick(i) = ProcessAfter
        /\ PENDING_PAYMENTS[i].status = "pending"
        /\ AgeAtLastTick(j) > ProcessAfter
        /\ PENDING_PAYMENTS[j].status = "processing"

StatusRank(status) ==
    CASE status = "pending" -> 1
      [] status = "processing" -> 2
      [] status = "completed" -> 3
      [] OTHER -> 0

\* the payment list new holds every payment of old, none at an earlier status
StatusesForward(old, new) ==
    /\ Len(new) >= Len(old)
    /\ \A i \in 1..Len(old) : StatusRank(new[i].status) >= StatusRank(old[i].status)
    /\ \A i \in 1..Len(new) : new[i].status \in {"pending", "processing", "completed"}

\* C8: no step moves a payment's status backward along pending -> processing
\* -> completed, none leaves completed, and no payment is ever failed; in the
\* in-memory list and in the persisted one.
C8_StatusForwardOnly ==
    [][/\ StatusesForward(PENDING_PAYMENTS, PENDING_PAYMENTS')
       /\ StatusesForward(PAYMENTS_FILE, PAYMENTS_FILE')]_vars

\* a completed payment and a processing one, reloaded by a restart and passed
\* over by a tick of the new process
C8_Witness ==
    /\ up
    /\ Len(runStarts) >= 2
    /\ payPc = "sleep"
    /\ lastTick # None
    /\ \E i, j \in Payments :
          /\ PENDING_PAYMENTS[i].status = "completed"
          /\ PENDING_PAYMENTS[i].processed_at < lastTick
          /\ PENDING_PAYMENTS[j].status = "processing"

\* the alerts from position from on
AlertsFrom(alerts, from) == SubSeq(alerts, from, Len(alerts))

FiringRules(account_id, balance) ==
    (IF LowBalanceFires(account_id, balance) THEN 1 ELSE 0)
    + (IF OverdraftFires(account_id, balance) THEN 1 ELSE 0)

\* C10: every evaluation appends one new, unacknowledged alert per firing
\* rule, whatever alerts exist already and whether or not they were
\* acknowledged; no step shortens the alert list or its file.
C10_NoSuppression ==
    [][/\ Len(ALERTS') >= Len(ALERTS)
       /\ Len(ALERTS_FILE') >= Len(ALERTS_FILE)
       /\ (simPc = "recorded" /\ simPc' = "alerted") =>
             /\ Len(ALERTS') = Len(ALERTS)
                    + FiringRules(simLocal.acct_key, ACCOUNTS[simLocal.acct_key].balance)
             /\ \A j \in (Len(ALERTS) + 1)..Len(ALERTS') : ~ALERTS'[j].acknowledged
       /\ (payPc = "recorded" /\ payPc' = "alerted") =>
             /\ Len(ALERTS') = Len(ALERTS)
                    + FiringRules(PENDING_PAYMENTS[payIdx].from_account,
                                  ACCOUNTS[PENDING_PAYMENTS[payIdx].from_account].balance)
             /\ \A j \in (Len(ALERTS) + 1)..Len(ALERTS') : ~ALERTS'[j].acknowledged
      ]_vars

\* an account was evaluated twice under the same condition, the second time
\* after the first alert had been acknowledged
C10_Witness ==
    \E i, j \in 1..Len(ALERTS) :
        /\ i < j
        /\ ALERTS[i].acknowledged
        /\ ALERTS[j].account_id = ALERTS[i].account_id
        /\ ALERTS[j].message.text = ALERTS[i].message.text
        /\ ALERTS[j].timestamp > ALERTS[i].timestamp

----------------------------------------------------------------------------
\* check_alerts on its own: one call, on balances around its thresholds

AlertBalanceDraws == {-500000, -1, 0, 199999, 200000, 499999, 500000, 1653245}

InitAlerts ==
    /\ now = 0
    /\ up = TRUE
    /\ runStarts = <<0>>
    /\ ACCOUNTS \in [AccountIds -> [balance : AlertBalanceDraws, last_updated : {None}]]
    /\ PAYMENT_COUNTER = 0
    /\ ALERT_COUNTER = 0
    /\ PENDING_PAYMENTS = <<>>
    /\ ALERTS = <<>>
    /\ TRANSACTION_COUNTER = 0
    /\ TRANSACTIONS_FILE = <<>>
    /\ PAYMENTS_FILE = <<>>
    /\ ALERTS_FILE = <<>>
    /\ simPc = "sleep"
    /\ simWake = 0
    /\ simLocal = NoLocal
    /\ payPc = "sleep"
    /\ payWake = PaySleep
    /\ payIdx = 0
    /\ payBal = 0
    /\ lastTick = None
    /\ txnCause = <<>>
    /\ payDebited = <<>>
    /\ response = 0
    /\ body = NoBody
    /\ FX_RATES = InitialRates
    /\ fxPc = "sleep"
    /\ fxWake = FxSleep
    /\ fxLocal = NoFxLocal

\* check_alerts(account_id), called once; simLocal.acct_key keeps its argument
ApplyCheckAlerts(account_id) ==
    /\ simLocal = NoLocal
    /\ CheckAlertsStep(account_id)
    /\ simLocal' = [NoLocal EXCEPT !.acct_key = account_id]
    /\ UNCHANGED <<now, up, fxVars, histVars, ACCOUNTS, PENDING_PAYMENTS, TRANSACTION_COUNTER,
                   PAYMENT_COUNTER, TRANSACTIONS_FILE, PAYMENTS_FILE, simPc, simWake,
                   payVars, response, body>>

NextAlerts == \E a \in AccountIds : ApplyCheckAlerts(a)

SpecAlerts == InitAlerts /\ [][NextAlerts]_vars

\* what an alert says, without its id and timestamp
AlertKind(alert) == <<alert.account_id, alert.message.text, alert.severity>>

\* C9: one evaluation of an account appends, for an AUD account, a medium
\* low-balance alert when 2000 <= balance < 5000, a high one when balance <
\* 2000 and none when balance >= 5000; for any currency a high overdraft alert
\* exactly when balance < 0; the two rules apply independently, low balance
\* first.
C9_AlertRules ==
    simLocal.acct_key # "" =>
        LET a == simLocal.acct_key
            b == ACCOUNTS[a].balance
            low == IF Currency[a] = "AUD" /\ b < 500000
                   THEN <<<<a, "Low balance warning", IF b < 200000 THEN "high" ELSE "medium">>>>
                   ELSE <<>>
            over == IF b < 0 THEN <<<<a, "OVERDRAFT", "high">>>> ELSE <<>>
        IN  /\ Len(ALERTS) = Len(low \o over)
            /\ \A j \in 1..Len(ALERTS) : AlertKind(ALERTS[j]) = (low \o over)[j]
            /\ ALERTS_FILE = ALERTS

\* an AUD account with a negative balance got its two alerts in one evaluation
C9_Witness ==
    /\ simLocal.acct_key # ""
    /\ Currency[simLocal.acct_key] = "AUD"
    /\ ACCOUNTS[simLocal.acct_key].balance < 0
    /\ Len(ALERTS) = 2

----------------------------------------------------------------------------
\* balance_simulator on its own: one iteration, from balances on both sides of
\* the floor, with draws at the ends of their ranges

SimBalanceDraws == {-2500000, -500001, -500000, -499999, 0, 1653245}

WideSimDraws == [opTxn |-> {-3000000, 5000000}, opDesc |-> {"Tax payment"},
                 opVol |-> {-20, 30}, sav |-> {-500000, 2000000},
                 expReceipt |-> {500000, 8000000}, expPayment |-> {-200000, 500000}]

InitSimulator ==
    /\ now = 0
    /\ up = TRUE
    /\ runStarts = <<0>>
    /\ ACCOUNTS \in [AccountIds -> [balance : SimBalanceDraws, last_updated : {None}]]
    /\ PAYMENT_COUNTER = 0
    /\ ALERT_COUNTER = 0
    /\ PENDING_PAYMENTS = <<>>
    /\ ALERTS = <<>>
    /\ TRANSACTION_COUNTER = 0
    /\ TRANSACTIONS_FILE = <<>>
    /\ PAYMENTS_FILE = <<>>
    /\ ALERTS_FILE = <<>>
    /\ simPc = "ready"
    /\ simWake = 0
    /\ simLocal = NoLocal
    /\ payPc = "sleep"
    /\ payWake = PaySleep
    /\ payIdx = 0
    /\ payBal = 0
    /\ lastTick = None
    /\ txnCause = <<>>
    /\ payDebited = <<>>
    /\ response = 0
    /\ body = NoBody
    /\ FX_RATES = InitialRates
    /\ fxPc = "sleep"
    /\ fxWake = FxSleep
    /\ fxLocal = NoFxLocal

NextSimulator ==
    \/ \E a \in AccountIds : \E c \in SimChangesFrom(a, ACCOUNTS[a].balance, WideSimDraws) :
          SimMutate(a, c)
    \/ SimRecord
    \/ SimAlerts
    \/ \E d \in SimSleeps : SimSleep(d)

SpecSimulator == InitSimulator /\ [][NextSimulator]_vars

\* C11: from the clamp step to the end of an iteration of the simulator, the
\* balance of the account it selected is at least -5000.00, whatever the
\* balance before and the delta were.
C11_BalanceFloor ==
    simPc \in {"mutated", "recorded", "alerted"} =>
        /\ ACCOUNTS[simLocal.acct_key].balance >= BalanceFloor
        /\ simLocal.balance >= BalanceFloor

\* an iteration took 3000.00 from op_aud and left it at the floor: with the
\* balances drawn, the sum was below the floor and the clamp applied
C11_Witness ==
    /\ simPc = "alerted"
    /\ simLocal.acct_key = "op_aud"
    /\ simLocal.change = -300000
    /\ ACCOUNTS["op_aud"].balance = BalanceFloor
    /\ Last(TRANSACTIONS_FILE).balance_after = BalanceFloor

----------------------------------------------------------------------------
\* Payment submission on its own: a process that has started, its simulator's
\* first iteration, and submissions with every kind of amount string

WideAccountInputs == {"op_aud", "exp_usd", "nope"}

\* "abc" or "NaN"; "0"; "-1"; "0.004"; "0.005"; "10.005"; "21000.00"; "Infinity"
WideAmountInputs ==
    {[parses |-> FALSE, mills |-> 0, quantizes |-> TRUE],
     [parses |-> TRUE, mills |-> 0, quantizes |-> TRUE],
     [parses |-> TRUE, mills |-> -1000, quantizes |-> TRUE],
     [parses |-> TRUE, mills |-> 4, quantizes |-> TRUE],
     [parses |-> TRUE, mills |-> 5, quantizes |-> TRUE],
     [parses |-> TRUE, mills |-> 10005, quantizes |-> TRUE],
     [parses |-> TRUE, mills |-> 21000000, quantizes |-> TRUE],
     [parses |-> TRUE, mills |-> 1, quantizes |-> FALSE]}

NextRequests ==
    \/ \E a \in SimAccountDraws : \E c \in SimChanges(a, ACCOUNTS[a].balance) : SimMutate(a, c)
    \/ SimRecord
    \/ SimAlerts
    \/ \E d \in SimSleeps : SimSleep(d)
    \/ \E f \in WideAccountInputs, t \in ReferenceInputs, m \in WideAmountInputs,
          d \in DescriptionInputs : create_payment(f, t, m, d)

SpecRequests == Init /\ [][NextRequests]_vars

\* C12: every payment a successful submission stored has a recorded amount
\* that is strictly positive, whatever amount passed the validation.
C12_StoredAmountPositive ==
    \A i \in Payments : PENDING_PAYMENTS[i].amount > 0

UnchangedBySubmission ==
    UNCHANGED <<PENDING_PAYMENTS, PAYMENTS_FILE, PAYMENT_COUNTER, ACCOUNTS, TRANSACTIONS_FILE>>

\* C13: a submission for an unknown account is answered 404; one for a known
\* account with an amount that does not parse or is not positive is answered
\* 400; either way the payment list, payments.json, the payment id counter,
\* the balances and the ledger are as before.  (With both faults the account
\* test comes first and the answer is 404.)
C13_RejectedSubmission ==
    [][body'.op = "create_payment" =>
          LET from_account == body'.args[1]
              amount == body'.args[2]
          IN  /\ from_account \notin AccountIds =>
                    response' = 404 /\ UnchangedBySubmission
              /\ from_account \in AccountIds /\ (~amount.parses \/ amount.mills <= 0) =>
                    response' = 400 /\ UnchangedBySubmission
              /\ response' \in {400, 404} =>
                    from_account \notin AccountIds \/ ~amount.parses \/ amount.mills <= 0]_vars

\* a submission with amount 0 on a known account was refused while a payment
\* and a ledger record were there to be affected
C13_Witness ==
    /\ response = 400
    /\ body.op = "create_payment"
    /\ body.args[1] \in AccountIds
    /\ body.args[2].parses
    /\ body.args[2].mills = 0
    /\ Len(PENDING_PAYMENTS) >= 1
    /\ Len(TRANSACTIONS_FILE) >= 1

----------------------------------------------------------------------------
\* Frame of the writers

Balances(accts) == [a \in AccountIds |-> accts[a].balance]

\* the step is the mutation or the ledger append of a simulator iteration
SimulatorWrites == simPc' # simPc /\ simPc' \in {"mutated", "recorded"}

\* the step is the debit or the ledger append of a payment completion
CompletionWrites == payPc' # payPc /\ payPc' \in {"debited", "recorded"}

\* the step handles a request
RequestStep == response' # 0

\* the step is a tick of the fx task
FxStep == up /\ up' /\ fxWake' # fxWake

\* C14: while a process runs, a step that changes a balance or the ledger is a
\* step of a simulator iteration or of a payment completion; a request
\* (submission, acknowledgement, any read) and a tick of the fx task leave
\* every balance and the ledger as they were.  (A new process starts from the
\* balances of the module and the ledger on disk.)
C14_OnlyWritersWrite ==
    [][/\ (up /\ up' /\ (Balances(ACCOUNTS') # Balances(ACCOUNTS)
                         \/ TRANSACTIONS_FILE' # TRANSACTIONS_FILE))
            => (SimulatorWrites \/ CompletionWrites)
       /\ (RequestStep \/ FxStep)
            => (Balances(ACCOUNTS') = Balances(ACCOUNTS)
                /\ TRANSACTIONS_FILE' = TRANSACTIONS_FILE)]_vars

\* a read was answered after both writers had written: a completed payment
\* and a simulator record are in the ledger
C14_Witness ==
    /\ response = 200
    /\ body.op = "get_cashflow"
    /\ \E i \in Payments : PENDING_PAYMENTS[i].status = "completed"
    /\ \E k \in Records : txnCause[k] = 0
    /\ \E k \in Records : txnCause[k] # 0

----------------------------------------------------------------------------
\* fx_rate_updater on its own: a process that stays up, its fx task's ticks
\* with draws at the ends and inside of the range, and the simulator's
\* iterations on one account.  The payment worker has no payment to work on
\* and its ticks are left out.

\* 0.00001 units: -0.005, -0.00498, 0, 0.001, 0.00498, 0.005
WideFxDraws == {-500, -498, 0, 100, 498, 500}

\* the sleep of the fx task passes
FxWait ==
    /\ up
    /\ Idle
    /\ fxPc = "sleep"
    /\ now < fxWake
    /\ fxWake <= MaxFxTicks * FxSleep
    /\ now' = fxWake
    /\ response' = 0
    /\ body' = NoBody
    /\ UNCHANGED <<up, histVars, memVars, fileVars, simVars, payVars, fxVars>>

NextFx ==
    \/ \E c \in SimChanges("op_aud", ACCOUNTS["op_aud"].balance) : SimMutate("op_aud", c)
    \/ SimRecord
    \/ SimAlerts
    \/ \E d \in SimSleeps : SimSleep(d)
    \/ FxWait
    \/ \E p \in [FxPairs -> WideFxDraws] : FxTick(p)

SpecFx == Init /\ [][NextFx]_vars

FxTicked == fxLocal # NoFxLocal

\* C15: a rate is rounded to 4 places half-up: after a tick every stored rate
\* is current * (1 + change_pct) with a value halfway between two 4-place
\* values taken away from zero.
C15_RatesRoundHalfUp ==
    FxTicked =>
        \A p \in FxPairs :
            FX_RATES[p] = RoundHalfUp(fxLocal[p].current * (100000 + fxLocal[p].change_pct),
                                      100000)

\* C16: after a tick, every stored rate r' is within 0.5% of the rate r it
\* replaced: 0.995 * r <= r' <= 1.005 * r.
C16_FxStepBound ==
    FxTicked =>
        \A p \in FxPairs :
            /\ 995 * fxLocal[p].current <= 1000 * FX_RATES[p]
            /\ 1000 * FX_RATES[p] <= 1005 * fxLocal[p].current

----------------------------------------------------------------------------
\* Shutdown

\* the last ledger record of the current process for the account, 0 if none
LastRecordOf(a) ==
    LET mine == {k \in Records : k > Last(runStarts) /\ TRANSACTIONS_FILE[k].account_id = a}
    IN  IF mine = {} THEN 0 ELSE Max(mine)

\* C17: after a shutdown every worker has terminated, and none was stopped
\* inside a step: each balance is the one its last ledger record of that
\* process shows (the initial one without a record), a payment that was
\* debited is completed, and payments.json and alerts.json hold the lists of
\* the memory.
C17_CooperativeCancellation ==
    ~up =>
        /\ simPc = "cancelled"
        /\ payPc = "cancelled"
        /\ fxPc = "cancelled"
        /\ \A a \in AccountIds :
              ACCOUNTS[a].balance = IF LastRecordOf(a) = 0 THEN InitialBalance[a]
                                    ELSE TRANSACTIONS_FILE[LastRecordOf(a)].balance_after
        /\ \A i \in Payments :
              payDebited[i] # 0 => PENDING_PAYMENTS[i].status = "completed"
        /\ Len(txnCause) = Len(TRANSACTIONS_FILE)
        /\ PAYMENTS_FILE = PENDING_PAYMENTS
        /\ ALERTS_FILE = ALERTS

\* a process was shut down after its simulator and its payment worker had
\* both written
C17_Witness ==
    /\ ~up
    /\ \E k \in Records : k > Last(runStarts) /\ txnCause[k] = 0
    /\ \E k \in Records : k > Last(runStarts) /\ txnCause[k] # 0
    /\ \E i \in Payments : PENDING_PAYMENTS[i].status = "completed"

----------------------------------------------------------------------------
\* Last-mutation timestamp

\* C18: while a process runs, a step that changes the balance of an account
\* also sets that account's last_updated to the time of the step.
C18_BalanceChangeStamps ==
    [][up /\ up' =>
          \A a \in AccountIds :
              ACCOUNTS'[a].balance # ACCOUNTS[a].balance => ACCOUNTS'[a].last_updated = now']_vars

----------------------------------------------------------------------------
\* The read requests on their own: a process started a day after the ledger
\* on disk was written, its simulator's first iteration, and reads with every
\* kind of parameter

\* the process starts 86400 + 30 seconds after the first one did
QueryTime == 86430

\* what a ledger line can be: account, type, amount in cents
LineDraws == {<<"op_aud", "credit", 10000>>, <<"op_aud", "debit", 3000>>,
              <<"exp_usd", "debit", 500>>, <<"exp_usd", "credit", 750>>}

\* lines are 15 seconds apart: the second one is a day old to the second
LineAt(i, line) ==
    [transaction_id |-> i,
     account_id     |-> line[1],
     timestamp      |-> 15 * i,
     amount         |-> line[3],
     type           |-> line[2],
     description    |-> <<"Operating activity">>,
     balance_after  |-> InitialBalance[line[1]]
                        + (IF line[2] = "credit" THEN line[3] ELSE 0 - line[3]),
     currency       |-> Currency[line[1]]]

LogDraws ==
    UNION {{[i \in 1..n |-> LineAt(i, f[i])] : f \in [1..n -> LineDraws]} : n \in 0..3}

InitQueries ==
    /\ now = QueryTime
    /\ up = TRUE
    /\ TRANSACTIONS_FILE \in LogDraws
    /\ runStarts = <<Len(TRANSACTIONS_FILE)>>
    /\ txnCause = [i \in 1..Len(TRANSACTIONS_FILE) |-> 0]
    /\ TRANSACTION_COUNTER = SeedTransactionCounter(load_transactions(TRANSACTIONS_FILE))
    /\ ACCOUNTS = FreshAccounts
    /\ PAYMENT_COUNTER = 0
    /\ ALERT_COUNTER = 0
    /\ PENDING_PAYMENTS = <<>>
    /\ ALERTS = <<>>
    /\ PAYMENTS_FILE = <<>>
    /\ ALERTS_FILE = <<>>
    /\ simPc = "ready"
    /\ simWake = now
    /\ simLocal = NoLocal
    /\ payPc = "sleep"
    /\ payWake = now + PaySleep
    /\ payIdx = 0
    /\ payBal = 0
    /\ lastTick = None
    /\ payDebited = <<>>
    /\ response = 0
    /\ body = NoBody
    /\ FX_RATES = InitialRates
    /\ fxPc = "sleep"
    /\ fxWake = now + FxSleep
    /\ fxLocal = NoFxLocal

WideReadAccounts == {"op_aud", "exp_usd", "nope"}
WideLimitInputs == {-1, 0, 1, 2, 100, 1001}
WidePeriodInputs == {"day", "week", "month"}
WideConvertInputs == {[parses |-> TRUE, mills |-> 1000], [parses |-> TRUE, mills |-> 10005],
                      [parses |-> FALSE, mills |-> 0]}
WidePairInputs == {"AUD_USD", "USD_AUD", "EUR_USD"}

NextQueries ==
    \/ \E c \in SimChanges("op_aud", ACCOUNTS["op_aud"].balance) : SimMutate("op_aud", c)
    \/ SimRecord
    \/ SimAlerts
    \/ \E d \in SimSleeps : SimSleep(d)
    \/ get_balances
    \/ \E a \in WideReadAccounts : get_balance(a)
    \/ \E a \in {"", "op_aud", "exp_usd"}, l \in WideLimitInputs : get_transactions(a, l)
    \/ \E st \in {"", "pending"} : get_payments(st)
    \/ \E ack \in {"", "false"}, sev \in {"", "high"} : get_alerts(ack, sev)
    \/ \E a \in WideReadAccounts, pd \in WidePeriodInputs : get_cashflow(a, pd)
    \/ get_fx_rates
    \/ \E m \in WideConvertInputs, pr \in WidePairInputs : convert_currency(m, pr)

SpecQueries == InitQueries /\ [][NextQueries]_vars

\* the positions of the ledger lines of the account ("": of any account), oldest first
MatchingLines(account_id) ==
    {k \in Records : account_id = "" \/ TRANSACTIONS_FILE[k].account_id = account_id}

\* the n-th largest element of S
RECURSIVE NthLargest(_, _)
NthLargest(S, n) == IF n = 1 THEN Max(S) ELSE NthLargest(S \ {Max(S)}, n - 1)

\* C19: the transaction query answers, for a limit of 0 or more that it
\* accepts, with at most limit records: the min(limit, count) most recent
\* lines of the account, the most recent first.
C19_MostRecentLimit ==
    (body.op = "get_transactions" /\ response = 200 /\ body.args[2] >= 0) =>
        LET S == MatchingLines(body.args[1])
            n == Min({body.args[2], Cardinality(S)})
        IN  /\ Len(body.out) = n
            /\ \A i \in 1..n : body.out[i] = TRANSACTIONS_FILE[NthLargest(S, i)]

RECURSIVE SumLines(_)
\* the sum of the amounts of the ledger lines at the positions S
SumLines(S) ==
    IF S = {} THEN 0
    ELSE LET k == CHOOSE x \in S : TRUE
         IN  TRANSACTIONS_FILE[k].amount + SumLines(S \ {k})

\* a cash-flow request is answered from the lines of the account stamped after
\* the cutoff (and at the cutoff too, if inclusive), and changes nothing
CashFlowAnswer(inclusive) ==
    (body'.op = "get_cashflow" /\ response' = 200) =>
        LET a == body'.args[1]
            cutoff == now - PeriodSeconds[body'.args[2]]
            S == {k \in Records :
                     /\ TRANSACTIONS_FILE[k].account_id = a
                     /\ \/ TRANSACTIONS_FILE[k].timestamp > cutoff
                        \/ inclusive /\ TRANSACTIONS_FILE[k].timestamp = cutoff}
            credits == SumLines({k \in S : TRANSACTIONS_FILE[k].type = "credit"})
            debits == SumLines({k \in S : TRANSACTIONS_FILE[k].type = "debit"})
            summary == body'.out[1]
        IN  /\ Len(body'.out) = 1
            /\ summary.total_inflows = credits
            /\ summary.total_outflows = debits
            /\ summary.net_flow = credits - debits
            /\ summary.transaction_count = Cardinality(S)
            /\ UNCHANGED <<now, up, histVars, memVars, fileVars, simVars, payVars, fxVars>>

----------------------------------------------------------------------------
\* Alerts after their creation

\* every field but acknowledged is the same in both
SameAlert(a, b) ==
    /\ a.alert_id = b.alert_id
    /\ a.account_id = b.account_id
    /\ a.severity = b.severity
    /\ a.message = b.message
    /\ a.timestamp = b.timestamp

\* the step is a successful acknowledge request
AcknowledgeStep == body'.op = "acknowledge_alert" /\ response' = 200

AlertsKept(old, new) ==
    /\ Len(new) >= Len(old)
    /\ \A j \in 1..Len(old) :
          /\ SameAlert(old[j], new[j])
          /\ new[j].acknowledged # old[j].acknowledged =>
                 AcknowledgeStep /\ new[j].acknowledged

\* C21: no step (worker step, alert evaluation, request, shutdown or restart)
\* removes an alert or changes any field of an existing alert other than
\* acknowledged, in memory or in the file; acknowledged changes only in a
\* successful acknowledge request, and only from false to true.
C21_AlertsImmutable ==
    [][AlertsKept(ALERTS, ALERTS') /\ AlertsKept(ALERTS_FILE, ALERTS_FILE')]_vars

\* an alert created and acknowledged in an earlier process was reloaded by
\* this one, whose own evaluation of alerts has appended a new alert after it
C21_Witness ==
    /\ up
    /\ \E j, k \in 1..Len(ALERTS) :
          /\ j < k
          /\ ALERTS[j].acknowledged
          /\ \E r \in Records :
                r <= Last(runStarts) /\ TRANSACTIONS_FILE[r].timestamp = ALERTS[j].timestamp
          /\ \E r \in Records :
                r > Last(runStarts) /\ TRANSACTIONS_FILE[r].timestamp = ALERTS[k].timestamp

\* the id the request names
AckId == body'.args[1]

\* the positions of the alerts that carry an id
AlertsWithId(id) == {j \in 1..Len(ALERTS) : ALERTS[j].alert_id = id}

\* the first of them in list order
FirstWithId(id) == CHOOSE j \in AlertsWithId(id) : \A k \in AlertsWithId(id) : j <= k

\* C22: an acknowledge request for an id no alert has answers 404 and leaves
\* the alert list and its file as they were, and it answers 404 only then; a
\* request for an id whose alert is acknowledged already answers 200 and leaves
\* the alert list and its file as the first acknowledgement left them.
C22_AcknowledgeErrors ==
    [][body'.op = "acknowledge_alert" =>
          /\ AlertsWithId(AckId) = {} =>
                 /\ response' = 404
                 /\ ALERTS' = ALERTS
                 /\ ALERTS_FILE' = ALERTS_FILE
          /\ AlertsWithId(AckId) # {} =>
                 /\ response' = 200
                 /\ ALERTS'[FirstWithId(AckId)].acknowledged
                 /\ ALERTS_FILE' = ALERTS'
                 /\ ALERTS[FirstWithId(AckId)].acknowledged =>
                        /\ ALERTS' = ALERTS
                        /\ ALERTS_FILE' = ALERTS_FILE
      ]_vars

\* a second acknowledgement of an alert has been answered
C22_Witness ==
    /\ body.op = "acknowledge_alert"
    /\ response = 200
    /\ \E j \in AlertsWithId(body.args[1]) :
          /\ ALERTS[j].acknowledged
          /\ now > ALERTS[j].timestamp

----------------------------------------------------------------------------
\* The payment and alert files against the lists in memory

\* C23: in every state, and so at every suspension point, the payments file
\* holds the payment list in memory and the alerts file holds the alert list in
\* memory: each submission, status change, alert creation and acknowledgement
\* has rewritten the file in the step that changed the list.
C23_FilesMatchMemory ==
    /\ PAYMENTS_FILE = PENDING_PAYMENTS
    /\ ALERTS_FILE = ALERTS

\* every task is suspended, a payment has gone through both status changes and
\* an alert has been created and acknowledged
C23_Witness ==
    /\ up
    /\ Idle
    /\ \E i \in Payments : PENDING_PAYMENTS[i].status = "completed"
    /\ \E j \in 1..Len(ALERTS) : ALERTS[j].acknowledged

----------------------------------------------------------------------------
\* Completion of a payment on an account that cannot cover it

\* the source account of the payment the worker is completing
PaySource == PENDING_PAYMENTS[payIdx].from_account

\* C24: the worker's debit of a due payment takes the amount whatever the
\* source balance is; when the balance it leaves is below zero, the alert
\* evaluation of the same worker step, which runs after the debit record was
\* appended to the ledger and before the payment is marked completed, appends
\* as its last alert an unacknowledged overdraft alert of severity high for
\* that account.
C24_OverdraftOnCompletion ==
    [][/\ payPc = "debit" =>
             /\ payPc' = "debited"
             /\ ACCOUNTS'[PaySource].balance
                    = ACCOUNTS[PaySource].balance - PENDING_PAYMENTS[payIdx].amount
       /\ (payPc = "recorded" /\ payPc' = "alerted" /\ ACCOUNTS[PaySource].balance < 0) =>
             /\ Len(ALERTS') > Len(ALERTS)
             /\ Last(ALERTS').message.text = "OVERDRAFT"
             /\ Last(ALERTS').severity = "high"
             /\ Last(ALERTS').account_id = PaySource
             /\ ~Last(ALERTS').acknowledged
             /\ Last(ALERTS').timestamp = now
             /\ ALERTS_FILE' = ALERTS'
             /\ Last(txnCause) = payIdx
             /\ Last(TRANSACTIONS_FILE).type = "debit"
             /\ Last(TRANSACTIONS_FILE).account_id = PaySource
             /\ Last(TRANSACTIONS_FILE).balance_after = ACCOUNTS[PaySource].balance
             /\ PENDING_PAYMENTS'[payIdx].status # "completed"
      ]_vars

\* a payment larger than the balance of its account has been debited and
\* recorded, and the alerts of that step have been evaluated
C24_Witness ==
    /\ payPc = "alerted"
    /\ payIdx \in Payments
    /\ PENDING_PAYMENTS[payIdx].amount > InitialBalance[PaySource]
    /\ ACCOUNTS[PaySource].balance < 0
    /\ Last(txnCause) = payIdx

----------------------------------------------------------------------------
\* Faults: a ledger write that raises, and a process that dies

\* a worker that a supervisor starts again after an exception
HaltedPc_restarted == "sleep"

\* lines 275 and 315 catch asyncio.CancelledError only: any other exception
\* leaves the coroutine, and its task is done
HaltedPc == "failed"

\* line 268: open() or write() in save_transaction raises after line 125 has
\* taken the id; nothing is appended, the exception ends balance_simulator
SimRecordFails ==
    /\ simPc = "mutated"
    /\ TRANSACTION_COUNTER < MaxTxns
    /\ TRANSACTION_COUNTER' = generate_transaction_id(TRANSACTION_COUNTER)
    /\ simPc' = HaltedPc
    /\ UNCHANGED <<now, up, fxVars, histVars, ACCOUNTS, PENDING_PAYMENTS, ALERTS,
                   PAYMENT_COUNTER, ALERT_COUNTER, fileVars, simWake, simLocal, payVars,
                   response, body>>

\* line 303: the same in payment_processor, after the debit of line 301
PayRecordFails ==
    /\ payPc = "debited"
    /\ TRANSACTION_COUNTER < MaxTxns
    /\ TRANSACTION_COUNTER' = generate_transaction_id(TRANSACTION_COUNTER)
    /\ payPc' = HaltedPc
    /\ UNCHANGED <<now, up, fxVars, histVars, ACCOUNTS, PENDING_PAYMENTS, ALERTS,
                   PAYMENT_COUNTER, ALERT_COUNTER, fileVars, simVars, payWake, payIdx,
                   payBal, lastTick, response, body>>

\* the process dies where it is: the files stay as the last write left them,
\* everything in memory is gone with the tasks
Crash ==
    /\ up
    /\ up' = FALSE
    /\ simPc' = "cancelled"
    /\ payPc' = "cancelled"
    /\ fxPc' = "cancelled"
    /\ response' = 0
    /\ body' = NoBody
    /\ UNCHANGED <<now, histVars, memVars, fileVars, simWake, simLocal, payWake, payIdx,
                   payBal, lastTick, FX_RATES, fxWake, fxLocal>>

NextFaults ==
    \/ \E d \in ClockSteps : Advance(d)
    \/ StartupWithin(MaxFaultStarts)
    \/ Shutdown
    \/ Crash
    \/ \E c \in SimChanges("op_aud", ACCOUNTS["op_aud"].balance) : SimMutate("op_aud", c)
    \/ SimRecord
    \/ SimRecordFails
    \/ SimAlerts
    \/ \E d \in SimSleeps : SimSleep(d)
    \/ PayTick
    \/ PaySleeps
    \/ PaySkip
    \/ PayExamine
    \/ PayDebit
    \/ PayRecord
    \/ PayRecordFails
    \/ PayAlerts
    \/ PayComplete
    \/ \E t \in ReferenceInputs, m \in AmountInputs, d \in DescriptionInputs :
          create_payment("op_aud", t, m, d)

SpecFaults == Init /\ [][NextFaults]_vars

\* the step is a ledger write that failed: an id was taken and no line appended
FailedAppend ==
    /\ up /\ up'
    /\ TRANSACTION_COUNTER' # TRANSACTION_COUNTER
    /\ TRANSACTIONS_FILE' = TRANSACTIONS_FILE

\* C25: when the ledger write of a worker step fails after the balance was
\* changed, the account keeps the changed balance, the ledger gains no record,
\* the worker that failed is halted and the other workers are where they were;
\* a halted worker takes no further step for as long as the process runs.
C25_FailedAppendNotRolledBack ==
    [][/\ FailedAppend =>
             /\ ACCOUNTS' = ACCOUNTS
             /\ simPc = "mutated" =>
                    /\ ACCOUNTS'[simLocal.acct_key].balance = simLocal.balance
                    /\ simPc' = "failed"
                    /\ payPc' = payPc /\ fxPc' = fxPc
             /\ payPc = "debited" =>
                    /\ ACCOUNTS'[PaySource].balance = payBal
                    /\ payDebited'[payIdx] = PENDING_PAYMENTS[payIdx].amount
                    /\ payPc' = "failed"
                    /\ simPc' = simPc /\ fxPc' = fxPc
       /\ (up /\ up' /\ simPc = "failed") =>
             /\ simPc' = "failed"
             /\ UNCHANGED <<simWake, simLocal>>
       /\ (up /\ up' /\ payPc = "failed") =>
             /\ payPc' = "failed"
             /\ UNCHANGED <<payWake, payIdx, payBal, lastTick>>
      ]_vars

\* the simulator is halted on a failed write, its balance change stands
\* without a record, and the payment worker has completed a tick since
C25_Witness ==
    /\ up
    /\ simPc = "failed"
    /\ ACCOUNTS[simLocal.acct_key].balance = simLocal.balance
    /\ ACCOUNTS[simLocal.acct_key].balance # InitialBalance[simLocal.acct_key]
    /\ lastTick # None
    /\ lastTick > ACCOUNTS[simLocal.acct_key].last_updated

\* C26: with crashes of the process at any point of a worker step or between
\* steps, failed ledger writes, and restarts that reload the payments file,
\* the ledger never holds more than one record for a payment, and that record
\* is a debit of the payment's amount.
C26_AtMostOneDebit ==
    \A i \in Payments :
        /\ Cardinality(RecordsOf(i)) <= 1
        /\ \A k \in RecordsOf(i) :
              /\ TRANSACTIONS_FILE[k].type = "debit"
              /\ TRANSACTIONS_FILE[k].amount = PENDING_PAYMENTS[i].amount

\* the process died after the debit record of a payment was written and
\* before the payment was marked completed; the next process reloaded the
\* payment and its worker has completed a tick
C26_Witness ==
    /\ up
    /\ payPc = "sleep"
    /\ lastTick # None
    /\ \E i \in Payments :
          /\ PENDING_PAYMENTS[i].status = "processing"
          /\ \E k \in RecordsOf(i) : lastTick > TRANSACTIONS_FILE[k].timestamp

----------------------------------------------------------------------------
\* Restart on an existing data directory

\* startup() has just run in a process that is not the first
JustRestarted == up /\ Len(runStarts) >= 2 /\ simPc = "ready"

\* the most recent ledger record of the account, 0 if it has none
LatestRecordOf(a) ==
    LET its == {k \in Records : TRANSACTIONS_FILE[k].account_id = a}
    IN  IF its = {} THEN 0 ELSE Max(its)

\* C27: when startup() has run on an existing ledger, the balance in memory of
\* every account that has a record is the balance_after of its most recent
\* record.
C27_BalancesRestored ==
    JustRestarted =>
        \A a \in AccountIds :
            LatestRecordOf(a) # 0 =>
                ACCOUNTS[a].balance = TRANSACTIONS_FILE[LatestRecordOf(a)].balance_after

\* the payments file a first process left: one payment, submitted and still
\* pending when the process was shut down, OutageBefore seconds ago
LeftPayments ==
    {<<NewPayment(0, "op_aud", t, m, d, -OutageBefore)>> :
        t \in ReferenceInputs, m \in AmountInputs, d \in DescriptionInputs}

\* the data directory and the clock when the second process is about to start
InitRestarts ==
    /\ now = 0
    /\ up = FALSE
    /\ runStarts = <<0>>
    /\ ACCOUNTS = FreshAccounts
    /\ PAYMENT_COUNTER = 1
    /\ ALERT_COUNTER = 0
    /\ PAYMENTS_FILE \in LeftPayments
    /\ PENDING_PAYMENTS = PAYMENTS_FILE
    /\ ALERTS = <<>>
    /\ TRANSACTION_COUNTER = 0
    /\ TRANSACTIONS_FILE = <<>>
    /\ ALERTS_FILE = <<>>
    /\ simPc = "cancelled"
    /\ simWake = 0
    /\ simLocal = NoLocal
    /\ payPc = "cancelled"
    /\ payWake = 0
    /\ payIdx = 0
    /\ payBal = 0
    /\ lastTick = None
    /\ txnCause = <<>>
    /\ payDebited = <<0>>
    /\ response = 0
    /\ body = NoBody
    /\ FX_RATES = InitialRates
    /\ fxPc = "cancelled"
    /\ fxWake = 0
    /\ fxLocal = NoFxLocal

NextRestarts ==
    \/ \E d \in ClockSteps : Advance(d)
    \/ StartupWithin(MaxFaultStarts)
    \/ Shutdown
    \/ \E c \in SimChanges("op_aud", ACCOUNTS["op_aud"].balance) : SimMutate("op_aud", c)
    \/ SimRecord
    \/ SimAlerts
    \/ \E d \in SimSleeps : SimSleep(d)
    \/ PayTick
    \/ PaySleeps
    \/ PaySkip
    \/ PayExamine
    \/ PayDebit
    \/ PayRecord
    \/ PayAlerts
    \/ PayComplete
    \/ \E f \in AccountInputs, t \in ReferenceInputs, m \in AmountInputs, d \in DescriptionInputs :
          create_payment(f, t, m, d)
    \/ \E i \in AlertIdInputs : acknowledge_alert(i)

SpecRestarts == InitRestarts /\ [][NextRestarts]_vars

\* C28: no two payments of the payment list carry the same payment_id, in any
\* state, restarts and the submissions after them included.
C28_PaymentIdsUnique ==
    \A i, j \in Payments :
        i # j => PENDING_PAYMENTS[i].payment_id # PENDING_PAYMENTS[j].payment_id

\* C29: no two alerts of the alert list carry the same alert_id, in any state,
\* restarts and the alerts created after them included, so that an id names
\* one alert.
C29_AlertIdsUnique ==
    \A i, j \in 1..Len(ALERTS) :
        i # j => ALERTS[i].alert_id # ALERTS[j].alert_id

----------------------------------------------------------------------------
\* Completion timestamp

\* processed_at is set exactly on the completed payments of a list
StampedIffCompleted(payments) ==
    \A i \in 1..Len(payments) :
        payments[i].processed_at # None <=> payments[i].status = "completed"

\* C30: in every state a payment has processed_at set if and only if its
\* status is completed, in memory and in the file, and a processed_at that
\* is set is the same in every later state.
C30_ProcessedAtIffCompleted ==
    [][/\ StampedIffCompleted(PENDING_PAYMENTS) /\ StampedIffCompleted(PENDING_PAYMENTS')
       /\ StampedIffCompleted(PAYMENTS_FILE) /\ StampedIffCompleted(PAYMENTS_FILE')
       /\ \A i \in Payments :
             PENDING_PAYMENTS[i].processed_at # None =>
                 /\ i <= Len(PENDING_PAYMENTS')
                 /\ PENDING_PAYMENTS'[i].processed_at = PENDING_PAYMENTS[i].processed_at
      ]_vars

\* a completed payment, stamped in the past, next to one that is not completed
C30_Witness ==
    \E i, j \in Payments :
        /\ PENDING_PAYMENTS[i].status = "completed"
        /\ PENDING_PAYMENTS[i].processed_at # None
        /\ now > PENDING_PAYMENTS[i].processed_at
        /\ PENDING_PAYMENTS[j].status # "completed"
        /\ PENDING_PAYMENTS[j].processed_at = None

====
